---- MODULE Spec2Model ----
(***************************************************************************)
(* Model of the supper-club registration site (src/app.py): a Flask        *)
(* application over an SQLite store with three tables (events,             *)
(* registrations, posts), a cookie session holding the admin flag and the  *)
(* queued flash notices, and one handler per route.                        *)
(*                                                                         *)
(* Spec      : requests are handled one at a time (each handler is one     *)
(*             atomic action, commit included).                            *)
(* SpecRace  : register requests of several visitors interleave between    *)
(*             the capacity check and the insert.                          *)
(***************************************************************************)
EXTENDS Integers, Sequences, FiniteSets, TLC

VARIABLES
    events,         \* table events: id -> [title, date, location, menu_description, capacity]
    registrations,  \* table registrations: id -> [event_id, name, phone,
                    \*    dietary_restrictions, num_guests, created_at]
    posts,          \* table posts: id -> [title, body, event_id]
    seq,            \* sqlite_sequence: table name -> last id handed out
    now,            \* the store's clock (CURRENT_TIMESTAMP) at the last insert
    session,        \* client -> [admin, flashes]: the signed session cookie
    inflight,       \* client -> the register request it has in progress (SpecRace)
    resp            \* the response to the request handled last

vars == <<events, registrations, posts, seq, now, session, inflight, resp>>
store == <<events, registrations, posts, seq, now>>

-----------------------------------------------------------------------------
(* Bounds of the model *)

MaxEvents == 2
MaxRegs == 2
MaxPosts == 1
MaxFlashes == 1

EventIds == 1..MaxEvents
RegIds == 1..MaxRegs
PostIds == 1..MaxPosts

\* Calendar dates, standing for ISO strings (compared as text, which for ISO
\* dates is the calendar order).
Dates == 1..3
Today == 2

\* SQL NULL / Python None
NULL == 0

Clients == {1, 2}
\* Spec: one browser issues every request. SpecRace: both visitors register.
SeqClients == {1}

-----------------------------------------------------------------------------
(* Form text: strings are sequences of characters, so that strip() is
   something computed. *)

IsSpace(c) == c = " "

RECURSIVE LStrip(_)
LStrip(s) == IF s # <<>> /\ IsSpace(Head(s)) THEN LStrip(Tail(s)) ELSE s

RECURSIVE RStrip(_)
RStrip(s) ==
    IF s # <<>> /\ IsSpace(s[Len(s)]) THEN RStrip(SubSeq(s, 1, Len(s) - 1)) ELSE s

\* str.strip()
Strip(s) == RStrip(LStrip(s))

\* Truthiness of an int that takes a negative number for false
TruthyIntPositive(n) == n > 0

\* Python truthiness of a str / an int
Truthy(s) == s # <<>>
TruthyInt(n) == n # 0

Ann == <<"A", "n", "n">>
Bo == <<"B", "o">>
Blank == <<>>
Spaces == <<" ", " ">>
Padded == <<" ", "B", "o", " ">>
Phone == <<"5", "5", "5">>
Vegan == <<"v">>

-----------------------------------------------------------------------------
(* Configuration *)

ADMIN_PASSWORD == <<"a", "d", "m", "i", "n">>

\* hmac.compare_digest(a, b): equality of the two strings
compare_digest(a, b) == a = b

\* The seeded event's capacity
SeedCapacity == 14

\* The schema's foreign keys, enforced because get_db sets PRAGMA foreign_keys = ON.
\* registrations.event_id references exactly one event; a post's event_id is an
\* optional reference that is left dangling when its event goes.
registrations_event_fk == TRUE
posts_event_fk == FALSE

-----------------------------------------------------------------------------
(* Queries *)

Min(S) == CHOOSE x \in S : \A y \in S : x <= y

RECURSIVE SumGuests(_, _)
SumGuests(regs, ids) ==
    IF ids = {} THEN 0
    ELSE LET i == CHOOSE x \in ids : TRUE
         IN regs[i].num_guests + SumGuests(regs, ids \ {i})

RegsOf(regs, e) == {r \in DOMAIN regs : regs[r].event_id = e}

\* COUNT(*) in the place of SUM(num_guests)
get_registration_count_rows(regs, e) == Cardinality(RegsOf(regs, e))

\* SELECT COALESCE(SUM(num_guests), 0) FROM registrations WHERE event_id = ?
get_registration_count(regs, e) == SumGuests(regs, RegsOf(regs, e))

\* get_next_event's SELECT without its WHERE date >= today
get_next_event_any_date(evs) ==
    LET earliest == {e \in DOMAIN evs : \A f \in DOMAIN evs : evs[e].date <= evs[f].date}
    IN IF DOMAIN evs = {} THEN NULL ELSE Min(earliest)

\* SELECT * FROM events WHERE date >= today ORDER BY date ASC LIMIT 1:
\* the id of the row returned, NULL when there is none. Among events of the
\* same date SQLite returns the one it scans first, the lowest rowid.
get_next_event(evs) ==
    LET upcoming == {e \in DOMAIN evs : evs[e].date >= Today}
        earliest == {e \in upcoming : \A f \in upcoming : evs[e].date <= evs[f].date}
    IN IF upcoming = {} THEN NULL ELSE Min(earliest)

\* capacity - get_registration_count(event id), as index and register compute it
spots_left(evs, regs, e) == evs[e].capacity - get_registration_count(regs, e)

\* The ids of a set of registrations as ORDER BY created_at returns them:
\* ascending creation time, rows of the same time in rowid order.
RECURSIVE OrderByCreatedAt(_, _)
OrderByCreatedAt(regs, ids) ==
    IF ids = {} THEN <<>>
    ELSE LET first == CHOOSE r \in ids : \A q \in ids :
                          \/ regs[r].created_at < regs[q].created_at
                          \/ (regs[r].created_at = regs[q].created_at /\ r <= q)
         IN <<first>> \o OrderByCreatedAt(regs, ids \ {first})

\* A function with one key removed / a set of keys removed (DELETE)
Without(f, keys) == [k \in DOMAIN f \ keys |-> f[k]]

-----------------------------------------------------------------------------
(* Session and responses *)

NoFlash == <<"", "">>

\* flash(message, category): appended to the session's queue
flash(sess, category, message) ==
    [sess EXCEPT !.flashes = Append(@, <<category, message>>)]

\* The queue is bounded in the model: a request that queues a notice is taken
\* only while the queue has room.
CanFlash(c) == Len(session[c].flashes) < MaxFlashes

\* A response: its kind ("redirect", "ok", "error"), the endpoint redirected to
\* or the page or file returned, the notice the request queued, whether the
\* route's own handler ran, and the data returned (a row id, the spots left,
\* the lines of the CSV file).
Response(status, location, notice, ran) ==
    [status |-> status, location |-> location, flash |-> notice, executed |-> ran,
     id |-> NULL, spots |-> 0, csv |-> <<>>]

\* redirect(url_for(endpoint)) after the handler queued `notice` (or nothing)
Redirect(endpoint, notice, ran) == Response("redirect", endpoint, notice, ran)

\* an exception nothing catches: the connection is closed without a commit
ServerError == Response("error", "500", NoFlash, TRUE)

\* One request that queues (category, message) for client c and redirects
FlashAndRedirect(c, category, message, endpoint) ==
    /\ CanFlash(c)
    /\ session' = [session EXCEPT ![c] = flash(@, category, message)]
    /\ resp' = Redirect(endpoint, <<category, message>>, TRUE)

\* A rendered page shows the queued notices, which takes them off the queue.
render_template(sess) == [sess EXCEPT !.flashes = <<>>]

\* admin_required with the check of the flag left out
admin_required_unguarded(c, handler) == handler

\* admin_required: without the admin flag the wrapped handler is not called
\* and the request is redirected to the admin page.
admin_required(c, handler) ==
    IF ~session[c].admin
    THEN /\ resp' = Redirect("admin", NoFlash, FALSE)
         /\ UNCHANGED <<store, session, inflight>>
    ELSE handler

-----------------------------------------------------------------------------
(* Request forms the model submits *)

Title == <<"S">>
Place == <<"P">>
Menu == <<"M">>
Body == <<"b">>

RegistrationForm(name, phone, dietary, num_guests) ==
    [name |-> name, phone |-> phone, dietary_restrictions |-> dietary,
     num_guests |-> num_guests]

RegisterForms ==
    {RegistrationForm(Ann, Phone, Blank, n) : n \in {-1, 0, 1}}
    \cup {RegistrationForm(Padded, Phone, Vegan, 2),
          RegistrationForm(Blank, Phone, Blank, 1),
          RegistrationForm(Spaces, Phone, Blank, 0),
          RegistrationForm(Ann, Blank, Blank, 2)}

UpdateRegistrationForms ==
    {RegistrationForm(Bo, Phone, Vegan, 2),
     RegistrationForm(Blank, Blank, Blank, 0)}

EventForm(title, date, location, menu_description, capacity) ==
    [title |-> title, date |-> date, location |-> location,
     menu_description |-> menu_description, capacity |-> capacity]

\* A blank date field is NULL here.
CreateEventForms ==
    {EventForm(Title, Today, Place, Menu, 2),
     EventForm(Title, Today + 1, Place, Menu, -1),
     EventForm(Title, Today, Place, Menu, 0),
     EventForm(Spaces, Today, Place, Menu, 1),
     EventForm(Title, NULL, Place, Menu, 1),
     EventForm(Title, Today, Blank, Menu, 1),
     EventForm(Title, Today, Place, Blank, 1)}

UpdateEventForms ==
    {EventForm(Title, Today - 1, Place, Menu, 0),
     EventForm(Title, Today, Place, Menu, 1)}

PostForms ==
    {[title |-> Title, body |-> Body, event_id |-> e] : e \in {NULL, 1}}
    \cup {[title |-> Spaces, body |-> Body, event_id |-> NULL],
          [title |-> Title, body |-> Blank, event_id |-> NULL]}

UpdatePostForms == {[title |-> Title, body |-> Body, event_id |-> MaxEvents]}

Passwords == {ADMIN_PASSWORD, <<"a", "d", "m">>, Blank}

-----------------------------------------------------------------------------
(* State after start-up: the schema is created and, the events table being
   empty, one event is seeded (its date is before, on or after today); nobody
   is logged in. *)

\* No register request in progress
Idle ==
    [pc |-> "idle", event |-> NULL, spots_left |-> 0,
     form |-> RegistrationForm(Blank, Blank, Blank, 0)]

Init ==
    /\ \E d \in Dates :
          events = (1 :> EventForm(Title, d, Place, Menu, SeedCapacity))
    /\ registrations = <<>>
    /\ posts = <<>>
    /\ seq = [events |-> 1, registrations |-> 0, posts |-> 0]
    /\ now = 0
    /\ session = [c \in Clients |-> [admin |-> FALSE, flashes |-> <<>>]]
    /\ inflight = [c \in Clients |-> Idle]
    /\ resp = Response("ok", "start", NoFlash, FALSE)

-----------------------------------------------------------------------------
(* Public registration *)

NoError == ""

\* register's checks with 0 guests let through
register_error_allowing_zero(evs, regs, form) ==
    LET event == get_next_event(evs)
        name == Strip(form.name)
        phone == Strip(form.phone)
    IN  IF event = NULL THEN "No upcoming event to register for."
        ELSE IF ~Truthy(name) \/ ~Truthy(phone) THEN "Name and phone are required."
        ELSE IF form.num_guests < 0 THEN "Must register at least 1 guest."
        ELSE IF form.num_guests > spots_left(evs, regs, event)
             THEN "Not enough spots remaining."
        ELSE NoError

\* register's checks without the capacity check
register_error_unlimited(evs, regs, form) ==
    LET event == get_next_event(evs)
        name == Strip(form.name)
        phone == Strip(form.phone)
    IN  IF event = NULL THEN "No upcoming event to register for."
        ELSE IF ~Truthy(name) \/ ~Truthy(phone) THEN "Name and phone are required."
        ELSE IF form.num_guests < 1 THEN "Must register at least 1 guest."
        ELSE NoError

\* register's checks with the capacity check off by one
register_error_off_by_one(evs, regs, form) ==
    LET event == get_next_event(evs)
        name == Strip(form.name)
        phone == Strip(form.phone)
    IN  IF event = NULL THEN "No upcoming event to register for."
        ELSE IF ~Truthy(name) \/ ~Truthy(phone) THEN "Name and phone are required."
        ELSE IF form.num_guests < 1 THEN "Must register at least 1 guest."
        ELSE IF form.num_guests > spots_left(evs, regs, event) + 1
             THEN "Not enough spots remaining."
        ELSE NoError

\* register's checks with the guest count looked at before name and phone
register_error_guests_first(evs, regs, form) ==
    LET event == get_next_event(evs)
        name == Strip(form.name)
        phone == Strip(form.phone)
    IN  IF event = NULL THEN "No upcoming event to register for."
        ELSE IF form.num_guests < 1 THEN "Must register at least 1 guest."
        ELSE IF ~Truthy(name) \/ ~Truthy(phone) THEN "Name and phone are required."
        ELSE IF form.num_guests > spots_left(evs, regs, event)
             THEN "Not enough spots remaining."
        ELSE NoError

\* register's checks, in the order of the code: the notice of the first one
\* that fails, NoError when the request passes them all.
register_error(evs, regs, form) ==
    LET event == get_next_event(evs)
        name == Strip(form.name)
        phone == Strip(form.phone)
    IN  IF event = NULL THEN "No upcoming event to register for."
        ELSE IF ~Truthy(name) \/ ~Truthy(phone) THEN "Name and phone are required."
        ELSE IF form.num_guests < 1 THEN "Must register at least 1 guest."
        ELSE IF form.num_guests > spots_left(evs, regs, event)
             THEN "Not enough spots remaining."
        ELSE NoError

\* INSERT INTO registrations (event_id, name, phone, dietary, num_guests), created_at
\* defaulting to the clock, which has moved on since the insert before; commit;
\* redirect to the confirmation page of the new row. The insert of a row whose
\* event is gone fails on the foreign key and the request ends in a 500.
insert_registration(c, event, form) ==
    LET id == seq.registrations + 1
    IN  IF registrations_event_fk /\ event \notin DOMAIN events
        THEN /\ resp' = ServerError
             /\ UNCHANGED <<store, session>>
        ELSE /\ id <= MaxRegs
             /\ now' = now + 1
             /\ registrations' = registrations @@
                   (id :> [event_id |-> event, name |-> Strip(form.name),
                           phone |-> Strip(form.phone),
                           dietary_restrictions |-> Strip(form.dietary_restrictions),
                           num_guests |-> form.num_guests, created_at |-> now + 1])
             /\ seq' = [seq EXCEPT !.registrations = id]
             /\ resp' = [Redirect("confirmation", NoFlash, TRUE) EXCEPT !.id = id]
             /\ UNCHANGED <<events, posts, session>>

\* POST /register, handled without interruption
register(c, form) ==
    /\ LET err == register_error(events, registrations, form)
       IN  IF err # NoError
           THEN /\ FlashAndRedirect(c, "error", err, "index")
                /\ UNCHANGED store
           ELSE insert_registration(c, get_next_event(events), form)
    /\ UNCHANGED inflight

\* GET /: the next event and its spots left
index(c) ==
    /\ LET event == get_next_event(events)
       IN resp' = [Response("ok", "index.html", NoFlash, TRUE) EXCEPT
                      !.id = event,
                      !.spots = IF event = NULL THEN 0
                                ELSE spots_left(events, registrations, event)]
    /\ session' = [session EXCEPT ![c] = render_template(@)]
    /\ UNCHANGED <<store, inflight>>

\* GET /confirmation/<reg_id>: the registration joined with its event
confirmation(c, reg_id) ==
    /\ IF reg_id \in DOMAIN registrations
             /\ registrations[reg_id].event_id \in DOMAIN events
       THEN /\ resp' = [Response("ok", "confirmation.html", NoFlash, TRUE) EXCEPT
                           !.id = reg_id]
            /\ session' = [session EXCEPT ![c] = render_template(@)]
       ELSE FlashAndRedirect(c, "error", "Registration not found.", "index")
    /\ UNCHANGED <<store, inflight>>

\* GET /blog: the list of posts
blog(c) ==
    /\ resp' = Response("ok", "blog.html", NoFlash, TRUE)
    /\ session' = [session EXCEPT ![c] = render_template(@)]
    /\ UNCHANGED <<store, inflight>>

\* GET /blog/<post_id>
blog_post(c, post_id) ==
    /\ IF post_id \in DOMAIN posts
       THEN /\ resp' = [Response("ok", "post.html", NoFlash, TRUE) EXCEPT !.id = post_id]
            /\ session' = [session EXCEPT ![c] = render_template(@)]
       ELSE FlashAndRedirect(c, "error", "Post not found.", "blog")
    /\ UNCHANGED <<store, inflight>>

-----------------------------------------------------------------------------
(* Admin: session *)

\* GET /admin: the login form, or the management page
admin(c) ==
    /\ resp' = Response("ok", "admin.html", NoFlash, TRUE)
    /\ session' = [session EXCEPT ![c] = render_template(@)]
    /\ UNCHANGED <<store, inflight>>

\* admin_login that never looks at the password
admin_login_any_password(c, password) ==
    /\ CanFlash(c)
    /\ session' = [session EXCEPT
                      ![c] = flash([@ EXCEPT !.admin = TRUE], "success", "Logged in.")]
    /\ resp' = Redirect("admin", <<"success", "Logged in.">>, TRUE)
    /\ UNCHANGED <<store, inflight>>

\* POST /admin/login
admin_login(c, password) ==
    /\ CanFlash(c)
    /\ IF compare_digest(password, ADMIN_PASSWORD)
       THEN /\ session' = [session EXCEPT
                              ![c] = flash([@ EXCEPT !.admin = TRUE], "success", "Logged in.")]
            /\ resp' = Redirect("admin", <<"success", "Logged in.">>, TRUE)
       ELSE /\ session' = [session EXCEPT ![c] = flash(@, "error", "Incorrect password.")]
            /\ resp' = Redirect("admin", <<"error", "Incorrect password.">>, TRUE)
    /\ UNCHANGED <<store, inflight>>

\* session.clear() that drops the notices only
session_clear_keeping_admin(sess) == [sess EXCEPT !.flashes = <<>>]

\* session.clear() that drops the admin flag only
session_clear_keeping_flashes(sess) == [sess EXCEPT !.admin = FALSE]

\* session.clear()
session_clear(sess) == [admin |-> FALSE, flashes |-> <<>>]

\* GET /admin/logout
admin_logout(c) ==
    admin_required(c,
       /\ session' = [session EXCEPT
                         ![c] = flash(session_clear(@), "success", "Logged out.")]
       /\ resp' = Redirect("admin", <<"success", "Logged out.">>, TRUE)
       /\ UNCHANGED <<store, inflight>>)

-----------------------------------------------------------------------------
(* Admin: events *)

\* POST /admin/events
create_event(c, form) ==
    admin_required(c,
       LET title == Strip(form.title)
           location == Strip(form.location)
           menu_description == Strip(form.menu_description)
           id == seq.events + 1
       IN  IF ~(/\ Truthy(title) /\ TruthyInt(form.date) /\ Truthy(location)
                /\ Truthy(menu_description) /\ TruthyInt(form.capacity))
           THEN /\ FlashAndRedirect(c, "error", "All fields are required.", "admin")
                /\ UNCHANGED <<store, inflight>>
           ELSE /\ id <= MaxEvents
                /\ events' = events @@
                      (id :> EventForm(title, form.date, location, menu_description,
                                       form.capacity))
                /\ seq' = [seq EXCEPT !.events = id]
                /\ FlashAndRedirect(c, "success", "Event created.", "admin")
                /\ UNCHANGED <<registrations, posts, now, inflight>>)

\* POST /admin/events/<event_id>
update_event(c, event_id, form) ==
    admin_required(c,
       /\ events' = [e \in DOMAIN events |->
                        IF e = event_id
                        THEN EventForm(Strip(form.title), form.date, Strip(form.location),
                                       Strip(form.menu_description), form.capacity)
                        ELSE events[e]]
       /\ FlashAndRedirect(c, "success", "Event updated.", "admin")
       /\ UNCHANGED <<registrations, posts, seq, now, inflight>>)

\* delete_event with the DELETE of the event's registrations left out
delete_event_keeping_registrations(c, event_id) ==
    admin_required(c,
       /\ events' = Without(events, {event_id})
       /\ FlashAndRedirect(c, "success", "Event deleted.", "admin")
       /\ UNCHANGED <<registrations, posts, seq, now, inflight>>)

\* delete_event that takes the posts of the event with it
delete_event_cascading_to_posts(c, event_id) ==
    admin_required(c,
       /\ registrations' = Without(registrations, RegsOf(registrations, event_id))
       /\ posts' = Without(posts, {p \in DOMAIN posts : posts[p].event_id = event_id})
       /\ events' = Without(events, {event_id})
       /\ FlashAndRedirect(c, "success", "Event deleted.", "admin")
       /\ UNCHANGED <<seq, now, inflight>>)

\* POST /admin/events/<event_id>/delete: both DELETEs, then one commit. With a
\* foreign key on posts.event_id the second DELETE fails while a post refers to
\* the event; nothing is committed and the request ends in a 500.
delete_event(c, event_id) ==
    admin_required(c,
       IF posts_event_fk /\ event_id \in DOMAIN events
             /\ \E p \in DOMAIN posts : posts[p].event_id = event_id
       THEN /\ resp' = ServerError
            /\ UNCHANGED <<store, session, inflight>>
       ELSE /\ registrations' = Without(registrations, RegsOf(registrations, event_id))
            /\ events' = Without(events, {event_id})
            /\ FlashAndRedirect(c, "success", "Event deleted.", "admin")
            /\ UNCHANGED <<posts, seq, now, inflight>>)

-----------------------------------------------------------------------------
(* Admin: registrations *)

\* POST /admin/registrations/<reg_id>
update_registration(c, reg_id, form) ==
    admin_required(c,
       /\ registrations' = [r \in DOMAIN registrations |->
                               IF r = reg_id
                               THEN [registrations[r] EXCEPT
                                        !.name = Strip(form.name),
                                        !.phone = Strip(form.phone),
                                        !.num_guests = form.num_guests,
                                        !.dietary_restrictions =
                                            Strip(form.dietary_restrictions)]
                               ELSE registrations[r]]
       /\ FlashAndRedirect(c, "success", "Guest updated.", "admin")
       /\ UNCHANGED <<events, posts, seq, now, inflight>>)

\* POST /admin/registrations/<reg_id>/delete
delete_registration(c, reg_id) ==
    admin_required(c,
       /\ registrations' = Without(registrations, {reg_id})
       /\ FlashAndRedirect(c, "success", "Guest removed.", "admin")
       /\ UNCHANGED <<events, posts, seq, now, inflight>>)

\* What export_csv writes: the header, then one row per registration selected
CsvHeader == <<"Name", "Phone", "Guests", "Dietary">>
CsvRow(r) == <<r.name, r.phone, r.num_guests, r.dietary_restrictions>>
CsvLines(regs, ids) == <<CsvHeader>> \o [i \in 1..Len(ids) |-> CsvRow(regs[ids[i]])]

\* export_csv's SELECT without its WHERE event_id = ?
export_rows_of_all_events(regs, event_id) == OrderByCreatedAt(regs, DOMAIN regs)

\* The registrations export_csv selects, in the order it writes them:
\* WHERE event_id = ? ORDER BY created_at
export_rows(regs, event_id) == OrderByCreatedAt(regs, RegsOf(regs, event_id))

\* GET /admin/events/<event_id>/csv
export_csv(c, event_id) ==
    admin_required(c,
       IF event_id \notin DOMAIN events
       THEN /\ FlashAndRedirect(c, "error", "Event not found.", "admin")
            /\ UNCHANGED <<store, inflight>>
       ELSE /\ resp' = [Response("ok", "csv", NoFlash, TRUE) EXCEPT
                           !.id = event_id,
                           !.csv = CsvLines(registrations,
                                            export_rows(registrations, event_id))]
            /\ UNCHANGED <<store, session, inflight>>)

-----------------------------------------------------------------------------
(* Admin: posts *)

\* POST /admin/posts
create_post(c, form) ==
    admin_required(c,
       LET title == Strip(form.title)
           body == Strip(form.body)
           id == seq.posts + 1
       IN  IF ~Truthy(title) \/ ~Truthy(body)
           THEN /\ FlashAndRedirect(c, "error", "Title and body are required.", "admin")
                /\ UNCHANGED <<store, inflight>>
           ELSE IF posts_event_fk /\ form.event_id # NULL
                      /\ form.event_id \notin DOMAIN events
           THEN /\ resp' = ServerError
                /\ UNCHANGED <<store, session, inflight>>
           ELSE /\ id <= MaxPosts
                /\ posts' = posts @@
                      (id :> [title |-> title, body |-> body, event_id |-> form.event_id])
                /\ seq' = [seq EXCEPT !.posts = id]
                /\ FlashAndRedirect(c, "success", "Post created.", "admin")
                /\ UNCHANGED <<events, registrations, now, inflight>>)

\* POST /admin/posts/<post_id>
update_post(c, post_id, form) ==
    admin_required(c,
       IF posts_event_fk /\ post_id \in DOMAIN posts /\ form.event_id # NULL
             /\ form.event_id \notin DOMAIN events
       THEN /\ resp' = ServerError
            /\ UNCHANGED <<store, session, inflight>>
       ELSE /\ posts' = [p \in DOMAIN posts |->
                            IF p = post_id
                            THEN [title |-> Strip(form.title), body |-> Strip(form.body),
                                  event_id |-> form.event_id]
                            ELSE posts[p]]
            /\ FlashAndRedirect(c, "success", "Post updated.", "admin")
            /\ UNCHANGED <<events, registrations, seq, now, inflight>>)

\* POST /admin/posts/<post_id>/delete
delete_post(c, post_id) ==
    admin_required(c,
       /\ posts' = Without(posts, {post_id})
       /\ FlashAndRedirect(c, "success", "Post deleted.", "admin")
       /\ UNCHANGED <<events, registrations, seq, now, inflight>>)

-----------------------------------------------------------------------------
(* Requests handled one at a time *)

\* A request to one of the routes wrapped in admin_required
AdminOnly(c) ==
    \/ admin_logout(c)
    \/ \E form \in CreateEventForms : create_event(c, form)
    \/ \E e \in EventIds, form \in UpdateEventForms : update_event(c, e, form)
    \/ \E e \in EventIds : delete_event(c, e)
    \/ \E r \in RegIds, form \in UpdateRegistrationForms : update_registration(c, r, form)
    \/ \E r \in RegIds : delete_registration(c, r)
    \/ \E e \in EventIds : export_csv(c, e)
    \/ \E form \in PostForms : create_post(c, form)
    \/ \E p \in PostIds, form \in UpdatePostForms : update_post(c, p, form)
    \/ \E p \in PostIds : delete_post(c, p)

\* A request to one of the public routes
Public(c) ==
    \/ \E form \in RegisterForms : register(c, form)
    \/ index(c)
    \/ admin(c)
    \/ \E password \in Passwords : admin_login(c, password)

Next == \E c \in SeqClients : Public(c) \/ AdminOnly(c)

Spec == Init /\ [][Next]_vars

-----------------------------------------------------------------------------
(* Every route of the site, the pages that only read included *)

\* A request to one of the routes that read the store and write nothing
Reading(c) ==
    \/ \E r \in RegIds : confirmation(c, r)
    \/ blog(c)
    \/ \E p \in PostIds : blog_post(c, p)

NextSite == \E c \in SeqClients : Public(c) \/ Reading(c) \/ AdminOnly(c)

SpecSite == Init /\ [][NextSite]_vars

-----------------------------------------------------------------------------
(* Register requests that interleave: each request reads the next event and
   the guests registered so far, checks, and inserts later; another request's
   insert may be committed in between. *)

\* register up to and including the capacity check
register_begin(c, form) ==
    /\ inflight[c].pc = "idle"
    /\ LET err == register_error(events, registrations, form)
           event == get_next_event(events)
       IN  IF err # NoError
           THEN /\ FlashAndRedirect(c, "error", err, "index")
                /\ UNCHANGED <<store, inflight>>
           ELSE /\ inflight' = [inflight EXCEPT
                                   ![c] = [pc |-> "checked", event |-> event,
                                           spots_left |->
                                               spots_left(events, registrations, event),
                                           form |-> form]]
                /\ UNCHANGED <<store, session, resp>>

\* register from the INSERT on
register_finish(c) ==
    /\ inflight[c].pc = "checked"
    /\ insert_registration(c, inflight[c].event, inflight[c].form)
    /\ inflight' = [inflight EXCEPT ![c] = Idle]

\* The admin's requests in the race: logging in and creating events
RaceAdmin(c) ==
    \/ \E password \in Passwords : admin_login(c, password)
    \/ \E form \in CreateEventForms : create_event(c, form)
    \/ \E e \in EventIds : delete_event(c, e)
    \/ admin(c)

NextRace ==
    \/ \E c \in Clients :
          \/ \E form \in RegisterForms : register_begin(c, form)
          \/ register_finish(c)
          \/ index(c)
    \/ \E c \in SeqClients : RaceAdmin(c)

SpecRace == Init /\ [][NextRace]_vars

-----------------------------------------------------------------------------
(* Properties *)

\* The guests registered for event e, summed row by row in id order
RECURSIVE GuestsUpTo(_, _, _)
GuestsUpTo(regs, e, n) ==
    IF n = 0 THEN 0
    ELSE GuestsUpTo(regs, e, n - 1)
         + (IF n \in DOMAIN regs /\ regs[n].event_id = e THEN regs[n].num_guests ELSE 0)

GuestsBooked(regs, e) == GuestsUpTo(regs, e, MaxRegs + 1)

\* The response of a request stopped by admin_required
Refused == Redirect("admin", NoFlash, FALSE)

\* The step is register(c, form). A register request is answered by a redirect
\* home, a redirect to the confirmation page or a 500 and by nothing else, so
\* the response is looked at first and tells most other steps apart at once.
Registers(c, form) ==
    /\ resp'.location \in {"index", "confirmation", "500"}
    /\ register(c, form)

\* C1: after any sequence of requests handled one at a time, no event has more
\* guests registered than its capacity (stated of the events whose capacity is
\* positive, as the data model has it).
C1_CapacityCeiling ==
    \A e \in DOMAIN events :
        events[e].capacity >= 1 =>
            GuestsBooked(registrations, e) <= events[e].capacity

\* C2, as claimed: after a login request with a wrong password the session
\* holds no admin flag.
C2_FailedLoginUnauthenticated ==
    \A c \in Clients :
        resp.flash = <<"error", "Incorrect password.">> => ~session[c].admin

\* C2, amended: a login request with a wrong password queues the error notice
\* and leaves the admin flag as it was, a login request with the configured
\* password sets it; an admin-only request of a session without the flag is
\* redirected to the admin page with the store untouched, and one of a session
\* with the flag runs its handler.
C2_LoginDecidesAdminAccess ==
    [][\A c \in SeqClients :
          /\ \A password \in Passwords :
                (resp'.location = "admin" /\ admin_login(c, password)) =>
                   /\ session'[c].admin = (session[c].admin \/ password = ADMIN_PASSWORD)
                   /\ resp'.flash = IF password = ADMIN_PASSWORD
                                    THEN <<"success", "Logged in.">>
                                    ELSE <<"error", "Incorrect password.">>
                   /\ session'[c].flashes = Append(session[c].flashes, resp'.flash)
          /\ \/ /\ resp'.executed = session[c].admin
                /\ ~session[c].admin =>
                      /\ resp' = Refused
                      /\ UNCHANGED <<events, registrations, posts>>
             \/ ~AdminOnly(c)
      ]_vars

\* C2 witness: a wrong password was submitted by a session without the flag,
\* which still has none.
C2_Witness ==
    /\ resp.flash = <<"error", "Incorrect password.">>
    /\ ~session[1].admin
    /\ seq.registrations > 0

\* C3: an admin-only request of a session without the admin flag is redirected
\* to the admin page, changes no event, registration or post, and queues no
\* notice.
C3_GuardRefusesSilently ==
    [][\A c \in SeqClients :
          \/ session[c].admin
          \/ /\ resp' = Refused
             /\ UNCHANGED <<events, registrations, posts, seq>>
             /\ session' = session
          \/ ~AdminOnly(c)
      ]_vars

\* C3 witness: a request was refused while the store held a registration and a
\* notice was waiting in the queue.
C3_Witness ==
    /\ resp = Refused
    /\ ~session[1].admin
    /\ DOMAIN registrations # {}
    /\ session[1].flashes # <<>>

\* C4: a logout of an authenticated session removes the admin flag; while the
\* flag is absent every admin-only request is refused; and the flag comes back
\* only by a login request with the configured password.
C4_LogoutRevokesUntilLogin ==
    [][\A c \in SeqClients :
          /\ (session[c].admin /\ admin_logout(c)) => ~session'[c].admin
          /\ \/ session[c].admin
             \/ /\ resp' = Refused
                /\ UNCHANGED <<events, registrations, posts>>
             \/ ~AdminOnly(c)
          /\ (~session[c].admin /\ session'[c].admin) =>
                /\ admin_login(c, ADMIN_PASSWORD)
                /\ resp'.flash = <<"success", "Logged in.">>
      ]_vars

\* C4 witness: the session has logged out and its next admin-only request was
\* refused.
C4_Witness ==
    /\ resp = Refused
    /\ session[1].flashes = << <<"success", "Logged out.">> >>
    /\ ~session[1].admin

\* C5: delete_event(e) of an authenticated admin removes, in one step of the
\* committed store, event e and every registration of e, and leaves the other
\* events and their registrations as they were.
C5_DeleteEventTakesItsRegistrations ==
    [][\A c \in Clients, e \in EventIds :
          (session[c].admin /\ delete_event(c, e)) =>
             /\ e \notin DOMAIN events'
             /\ \A r \in DOMAIN registrations' : registrations'[r].event_id # e
             /\ DOMAIN events' = DOMAIN events \ {e}
             /\ \A f \in DOMAIN events' : events'[f] = events[f]
             /\ DOMAIN registrations' =
                   {r \in DOMAIN registrations : registrations[r].event_id # e}
             /\ \A r \in DOMAIN registrations' : registrations'[r] = registrations[r]
      ]_vars

\* C5 witness: an event that had a registration was deleted while another event
\* keeps its own.
C5_Witness ==
    /\ resp.flash = <<"success", "Event deleted.">>
    /\ seq.registrations = 2
    /\ \E e \in DOMAIN events, r \in DOMAIN registrations :
          /\ registrations[r].event_id = e
          /\ DOMAIN registrations = {r}
    /\ Cardinality(DOMAIN events) = 1
    /\ seq.events = 2

\* C6: a register request for 0 or fewer guests is answered with an error
\* notice and a redirect, and leaves events, registrations and posts as they
\* were.
C6_NonPositiveGuestsRejected ==
    [][\A c \in SeqClients, form \in RegisterForms :
          (form.num_guests <= 0 /\ Registers(c, form)) =>
             /\ resp'.status = "redirect"
             /\ resp'.location = "index"
             /\ resp'.flash[1] = "error"
             /\ session'[c].flashes = Append(session[c].flashes, resp'.flash)
             /\ UNCHANGED <<events, registrations, posts, seq>>
      ]_vars

\* C6 witness: a request for fewer than 1 guest, with name and phone given and
\* spots left, was rejected.
C6_Witness ==
    /\ resp.flash = <<"error", "Must register at least 1 guest.">>
    /\ get_next_event(events) # NULL
    /\ GuestsBooked(registrations, get_next_event(events))
          < events[get_next_event(events)].capacity

\* C7: with a next event and a name and a phone given, a register request for
\* n >= 1 guests is accepted exactly if n <= capacity - guests registered now;
\* accepted, it adds one registration of n guests for that event and the spots
\* left go down by n; rejected, it adds nothing.
C7_AcceptedIffSpotsLeft ==
    [][\A c \in SeqClients, form \in RegisterForms :
          (/\ form.num_guests >= 1
           /\ Registers(c, form)
           /\ get_next_event(events) # NULL
           /\ Truthy(Strip(form.name)) /\ Truthy(Strip(form.phone))) =>
             LET e == get_next_event(events)
                 left == events[e].capacity - GuestsBooked(registrations, e)
                 accepted == resp'.location = "confirmation"
                 new == DOMAIN registrations' \ DOMAIN registrations
             IN  /\ accepted <=> form.num_guests <= left
                 /\ \A r \in DOMAIN registrations :
                       r \in DOMAIN registrations' /\ registrations'[r] = registrations[r]
                 /\ events' = events
                 /\ accepted =>
                       /\ Cardinality(new) = 1
                       /\ \A r \in new : /\ registrations'[r].event_id = e
                                         /\ registrations'[r].num_guests = form.num_guests
                                         /\ resp'.id = r
                       /\ events'[e].capacity - GuestsBooked(registrations', e)
                             = left - form.num_guests
                 /\ ~accepted =>
                       /\ new = {}
                       /\ resp'.flash = <<"error", "Not enough spots remaining.">>
      ]_vars

\* C7 witness: after a registration was deleted and the capacity edited, a
\* request was rejected for want of spots although the event has room for a
\* smaller party.
C7_Witness ==
    /\ resp.flash = <<"error", "Not enough spots remaining.">>
    /\ get_next_event(events) # NULL
    /\ events[get_next_event(events)].capacity
          - GuestsBooked(registrations, get_next_event(events)) = 1
    /\ seq.registrations = 1 + Cardinality(DOMAIN registrations)

C9_RacingRegistrationsOverbook ==
    [][\A c \in Clients :
          register_finish(c) =>
             LET e == inflight[c].event
                 n == inflight[c].form.num_guests
                 new == DOMAIN registrations' \ DOMAIN registrations
             IN  /\ 1 <= n /\ n <= inflight[c].spots_left
                 /\ e \in DOMAIN events =>
                       /\ Cardinality(new) = 1
                       /\ \A r \in new : /\ registrations'[r].event_id = e
                                         /\ registrations'[r].num_guests = n
                       /\ GuestsBooked(registrations', e) > events[e].capacity =>
                             events[e].capacity - GuestsBooked(registrations, e)
                                < inflight[c].spots_left
      ]_vars

\* C9 witness: both requests are done and an event of positive capacity has
\* more guests registered than its capacity.
C9_Witness ==
    /\ \A c \in Clients : inflight[c].pc = "idle"
    /\ \E e \in DOMAIN events :
          /\ events[e].capacity >= 1
          /\ GuestsBooked(registrations, e) > events[e].capacity
          /\ \A r \in DOMAIN registrations :
                registrations[r].event_id = e
                   /\ registrations[r].num_guests <= events[e].capacity

\* The ids of event e's registrations in the order they were inserted
InsertionOrder(regs, e) ==
    SelectSeq([i \in 1..(MaxRegs + 1) |-> i],
              LAMBDA i : i \in DOMAIN regs /\ regs[i].event_id = e)

\* C10: export_csv of an authenticated admin changes nothing in the store; for
\* an existing event it returns the header and then one row for each
\* registration of that event and of no other, in the order of insertion, which
\* is the order of creation time; for an id that is no event it queues the
\* error notice and redirects to the admin page.
C10_ExportListsTheEventsRegistrations ==
    [][\A c \in Clients, e \in EventIds :
          (session[c].admin /\ export_csv(c, e)) =>
             /\ UNCHANGED <<events, registrations, posts, seq>>
             /\ IF e \in DOMAIN events
                THEN LET ids == InsertionOrder(registrations, e)
                     IN  /\ resp'.status = "ok" /\ resp'.location = "csv"
                         /\ Len(resp'.csv) = 1 +
                               Cardinality({r \in DOMAIN registrations :
                                               registrations[r].event_id = e})
                         /\ resp'.csv[1] = CsvHeader
                         /\ \A i \in 1..Len(ids) :
                               resp'.csv[i + 1] =
                                  <<registrations[ids[i]].name,
                                    registrations[ids[i]].phone,
                                    registrations[ids[i]].num_guests,
                                    registrations[ids[i]].dietary_restrictions>>
                         /\ \A i, j \in 1..Len(ids) :
                               i < j => registrations[ids[i]].created_at
                                           <= registrations[ids[j]].created_at
                         /\ session' = session
                ELSE /\ resp' = Redirect("admin", <<"error", "Event not found.">>, TRUE)
                     /\ session'[c].flashes = Append(session[c].flashes, resp'.flash)
      ]_vars

\* C10 witness: an export of three lines, two registrations that differ.
C10_Witness ==
    /\ resp.location = "csv"
    /\ Len(resp.csv) = 3
    /\ resp.csv[2] # resp.csv[3]

\* C11: whenever a register request handled without interruption inserts a
\* registration, the guests registered for that event right after the insert
\* are no more than its capacity; and while an event has more guests than
\* capacity, a register request for it inserts nothing.
C11_InsertKeepsWithinCapacity ==
    [][\A c \in SeqClients, form \in RegisterForms :
          Registers(c, form) =>
             LET new == DOMAIN registrations' \ DOMAIN registrations
             IN  /\ \A r \in new :
                       LET e == registrations'[r].event_id
                       IN  /\ e \in DOMAIN events'
                           /\ GuestsBooked(registrations', e) <= events'[e].capacity
                 /\ \A e \in DOMAIN events :
                       (GuestsBooked(registrations, e) > events[e].capacity) =>
                          \A r \in new : registrations'[r].event_id # e
      ]_vars

\* C11 witness: a registration was accepted that fills its event exactly, after
\* the event's capacity had been edited.
C11_Witness ==
    /\ resp.location = "confirmation"
    /\ resp.id \in DOMAIN registrations
    /\ LET e == registrations[resp.id].event_id
       IN  /\ events[e].capacity # SeedCapacity
           /\ GuestsBooked(registrations, e) = events[e].capacity

\* C12: every stored registration has at least 1 guest.
C12_GuestsAtLeastOne ==
    \A r \in DOMAIN registrations : registrations[r].num_guests >= 1

\* C13: every stored event has a capacity of at least 1.
C13_CapacityPositive ==
    \A e \in DOMAIN events : events[e].capacity >= 1

\* The notice admin_logout queues
LoggedOut == <<"success", "Logged out.">>

\* C14, as claimed: a logout request leaves the session with no admin flag and
\* none of the notices queued before it, whether or not the session was
\* authenticated.
C14_LogoutClearsUnconditionally ==
    [][\A c \in Clients :
          admin_logout(c) =>
             /\ ~session'[c].admin
             /\ session'[c].flashes \in {<<>>, <<LoggedOut>>}
      ]_vars

\* C14, amended: a logout request of an authenticated session removes the admin
\* flag and every notice queued before, and queues the logout notice; a logout
\* request of a session without the flag is refused and leaves the session, its
\* queued notices included, as it was.
C14_LogoutClearsWhenAuthenticated ==
    [][\A c \in Clients :
          admin_logout(c) =>
             IF session[c].admin
             THEN /\ session'[c] = [admin |-> FALSE, flashes |-> <<LoggedOut>>]
                  /\ resp' = Redirect("admin", LoggedOut, TRUE)
                  /\ UNCHANGED <<events, registrations, posts>>
             ELSE /\ session' = session
                  /\ resp' = Refused
      ]_vars

\* C14 witness: a logout has run and the session holds the logout notice alone.
C14_Witness ==
    /\ resp = Redirect("admin", LoggedOut, TRUE)
    /\ session[1] = [admin |-> FALSE, flashes |-> <<LoggedOut>>]

C16_RegistersForNextEvent ==
    [][\A c \in SeqClients, form \in RegisterForms :
          Registers(c, form) =>
             LET new == DOMAIN registrations' \ DOMAIN registrations
                 upcoming == {e \in DOMAIN events : events[e].date >= Today}
             IN  /\ \A r \in new :
                       LET e == registrations'[r].event_id
                       IN  /\ e \in upcoming
                           /\ \A f \in upcoming : events[e].date <= events[f].date
                 /\ upcoming = {} =>
                       /\ new = {}
                       /\ registrations' = registrations
                       /\ resp' = Redirect("index",
                             <<"error", "No upcoming event to register for.">>, TRUE)
      ]_vars

\* C16 witness: a registration was accepted for an event dated today while the
\* store holds an event dated before today, of a lower id.
C16_Witness ==
    /\ resp.location = "confirmation"
    /\ resp.id \in DOMAIN registrations
    /\ LET e == registrations[resp.id].event_id
       IN  /\ e \in DOMAIN events
           /\ events[e].date >= Today
           /\ \E f \in DOMAIN events : f < e /\ events[f].date < Today

C18_RegistrationsHaveTheirEvent ==
    \A r \in DOMAIN registrations : registrations[r].event_id \in DOMAIN events

\* C18 witness: an event was deleted and the store still holds a registration,
\* of another event.
C18_Witness ==
    /\ resp.flash = <<"success", "Event deleted.">>
    /\ Cardinality(DOMAIN events) < seq.events
    /\ \E r \in DOMAIN registrations : registrations[r].name = Bo

\* What a request changes in a store with an insert of one registration for
\* event e at most
OnlyAddsRegistrationFor(e) ==
    /\ events' = events
    /\ posts' = posts
    /\ \A r \in DOMAIN registrations :
          r \in DOMAIN registrations' /\ registrations'[r] = registrations[r]
    /\ Cardinality(DOMAIN registrations' \ DOMAIN registrations) <= 1
    /\ \A r \in DOMAIN registrations' \ DOMAIN registrations :
          /\ e # NULL
          /\ registrations'[r].event_id = e

\* C19: while the session of the browser that issues the requests holds no
\* admin flag, a request of it, whatever the route, leaves events and posts and
\* every existing registration as they were; it adds at most one registration,
\* for the next event, and only a register request adds one.
C19_VisitorsOnlyRegister ==
    [][\A c \in SeqClients :
          ~session[c].admin =>
             /\ OnlyAddsRegistrationFor(get_next_event(events))
             /\ registrations' # registrations =>
                   \E form \in RegisterForms : register(c, form)
      ]_vars

\* C19 witness: a session that never logged in has registered twice and reads
\* its confirmation page; events and posts are as they were at the start.
C19_Witness ==
    /\ ~session[1].admin
    /\ resp.location = "confirmation.html"
    /\ Cardinality(DOMAIN registrations) = 2
    /\ DOMAIN events = {1} /\ events[1].capacity = SeedCapacity
    /\ posts = <<>>

====
